---- MODULE Spec2Model ----
(***************************************************************************)
(* Huffman encoder / decoder of src/huffman.py as a state machine.         *)
(*                                                                         *)
(* One behaviour is one run of the script: an input string is encoded by   *)
(* huffman_encode, written by save_to_file, and the .huff file (or a       *)
(* prefix of it) is read back by decompress_from_file.  construct_tree is  *)
(* modelled one loop iteration at a time; everything else is one action    *)
(* per function.                                                           *)
(*                                                                         *)
(* Python values:  str  -> sequence of one-character strings               *)
(*                 dict -> sequence of <<key, value>> pairs in insertion   *)
(*                         order                                           *)
(*                 Node -> record [value, char, left, right]               *)
(*                 bitarray / "0","1" str -> sequence of "0" / "1"         *)
(*                 bytes -> sequence of 0..255                             *)
(***************************************************************************)
EXTENDS Integers, Sequences, FiniteSets, TLC

\* ------------------------------------------------------------------ bounds
NumSyms == 3
MaxLen == 5
MaxCodeLen == 3

\* --------------------------------------------------------------- alphabet
AllChars == <<"a", "b", "c", "d", "e", "f">>
Symbols == {AllChars[i] : i \in 1..NumSyms}

None == "None"
NoChild == <<>>

RECURSIVE StringsOfLen(_)
StringsOfLen(n) ==
    IF n = 0 THEN {<<>>}
    ELSE {Append(s, c) : s \in StringsOfLen(n - 1), c \in Symbols}

Inputs == UNION {StringsOfLen(n) : n \in 0..MaxLen}

\* ------------------------------------------------------------------- Node
Node(value, char, left, right) ==
    [value |-> value, char |-> char, left |-> left, right |-> right]

\* ------------------------------------------------------------ dict helpers
DictHas(d, k) == \E i \in 1..Len(d) : d[i][1] = k

DictGet(d, k) == d[CHOOSE i \in 1..Len(d) : d[i][1] = k][2]

DictSet(d, k, v) ==
    IF DictHas(d, k)
    THEN [i \in 1..Len(d) |-> IF d[i][1] = k THEN <<k, v>> ELSE d[i]]
    ELSE Append(d, <<k, v>>)

RECURSIVE DictUnion(_, _)
DictUnion(l, r) ==
    IF r = <<>> THEN l
    ELSE DictUnion(DictSet(l, Head(r)[1], Head(r)[2]), Tail(r))

\* ------------------------------------------------- generate_frequency_map
RECURSIVE generate_frequency_map_loop(_, _)
generate_frequency_map_loop(string, char_map) ==
    IF string = <<>> THEN char_map
    ELSE LET char == Head(string) IN
         generate_frequency_map_loop(
             Tail(string),
             IF DictHas(char_map, char)
             THEN DictSet(char_map, char, DictGet(char_map, char) + 1)
             ELSE DictSet(char_map, char, 1))

generate_frequency_map(string) == generate_frequency_map_loop(string, <<>>)

\* ------------------------------------------------------- construct_tree
\* ascending_keys = [Node(char_map[k], k) for k in char_map.keys()]
InitialKeys(char_map) ==
    [i \in 1..Len(char_map) |->
        Node(char_map[i][2], char_map[i][1], NoChild, NoChild)]

\* a sort that puts a node before the nodes of equal value
InsertBeforeEqual(sorted, node) ==
    LET k == Cardinality({i \in 1..Len(sorted) : sorted[i].value < node.value})
    IN SubSeq(sorted, 1, k) \o <<node>> \o SubSeq(sorted, k + 1, Len(sorted))

\* list.sort(key=lambda x: x.value): stable, ascending by value
InsertByValue(sorted, node) ==
    LET k == Cardinality({i \in 1..Len(sorted) : sorted[i].value <= node.value})
    IN SubSeq(sorted, 1, k) \o <<node>> \o SubSeq(sorted, k + 1, Len(sorted))

\* the sort left out
SortByValueUnsorted(list) == list

RECURSIVE SortByValue(_)
SortByValue(list) ==
    IF list = <<>> THEN <<>>
    ELSE InsertByValue(SortByValue(SubSeq(list, 1, Len(list) - 1)),
                       list[Len(list)])

\* a parent that takes the weight of its left child only
NewParentNodeLeftValue(left, right) == Node(left.value, None, left, right)

\* Node(left.value + right.value, None, left, right)
NewParentNode(left, right) == Node(left.value + right.value, None, left, right)

\* one iteration of the while loop: sort, pop(0), pop(0), append
MergeStep(list) ==
    LET sorted == SortByValue(list)
        left == sorted[1]
        right == sorted[2]
    IN Append(SubSeq(sorted, 3, Len(sorted)), NewParentNode(left, right))

\* a placeholder leaf returned for an empty list
ConstructTreeReturnPlaceholder(list) ==
    IF Len(list) = 0
    THEN [raised |-> "", node |-> Node(0, "", NoChild, NoChild)]
    ELSE [raised |-> "", node |-> list[1]]

\* return ascending_keys[0]: IndexError on an empty list
ConstructTreeReturn(list) ==
    IF Len(list) = 0
    THEN [raised |-> "IndexError", node |-> NoChild]
    ELSE [raised |-> "", node |-> list[1]]

\* ------------------------------------------------------- Node.get_schema
\* a traversal that appends no bit on the way right
RECURSIVE get_schema_no_right_bit(_, _)
get_schema_no_right_bit(self, pattern) ==
    IF self.char # None THEN <<<<self.char, pattern>>>>
    ELSE DictUnion(get_schema_no_right_bit(self.left, Append(pattern, "0")),
                   get_schema_no_right_bit(self.right, pattern))

RECURSIVE get_schema(_, _)
get_schema(self, pattern) ==
    IF self.char # None THEN <<<<self.char, pattern>>>>
    ELSE DictUnion(get_schema(self.left, Append(pattern, "0")),
                   get_schema(self.right, Append(pattern, "1")))

\* ------------------------------------------- encode_string_with_schema
RECURSIVE encode_string_with_schema(_, _)
encode_string_with_schema(string, encoding) ==
    IF string = <<>> THEN <<>>
    ELSE DictGet(encoding, Head(string))
         \o encode_string_with_schema(Tail(string), encoding)

\* ------------------------------------------- decode_string_with_schema
\* dict((v, k) for k, v in encoding.items())
RECURSIVE SwapDict(_)
SwapDict(encoding) ==
    IF encoding = <<>> THEN <<>>
    ELSE LET last == encoding[Len(encoding)] IN
         DictSet(SwapDict(SubSeq(encoding, 1, Len(encoding) - 1)),
                 last[2], last[1])

\* the for loop; returns the local variables at loop exit
RECURSIVE DecodeLoop(_, _, _, _)
DecodeLoop(string, swapped, output, pattern) ==
    IF string = <<>> THEN [output |-> output, pattern |-> pattern]
    ELSE LET p == Append(pattern, Head(string)) IN
         IF DictHas(swapped, p)
         THEN DecodeLoop(Tail(string), swapped,
                         Append(output, DictGet(swapped, p)), <<>>)
         ELSE DecodeLoop(Tail(string), swapped, output, p)

DecodeLocals(string, encoding) ==
    DecodeLoop(string, SwapDict(encoding), <<>>, <<>>)

decode_string_with_schema(string, encoding) ==
    DecodeLocals(string, encoding).output

\* ------------------------------------------------- repr / encode("utf-8")
OrdTable ==
    << <<" ", 32>>, <<"'", 39>>, <<",", 44>>,
       <<"0", 48>>, <<"1", 49>>, <<"2", 50>>, <<"3", 51>>, <<"4", 52>>,
       <<"5", 53>>, <<"6", 54>>, <<"7", 55>>, <<"8", 56>>, <<"9", 57>>,
       <<":", 58>>,
       <<"a", 97>>, <<"b", 98>>, <<"c", 99>>, <<"d", 100>>, <<"e", 101>>,
       <<"f", 102>>,
       <<"{", 123>>, <<"}", 125>> >>

Ord(c) == DictGet(OrdTable, c)

Chr(b) == OrdTable[CHOOSE i \in 1..Len(OrdTable) : OrdTable[i][2] = b][1]

DigitChars == <<"0", "1", "2", "3", "4", "5", "6", "7", "8", "9">>

IsDigit(c) == \E i \in 1..10 : DigitChars[i] = c

DigitValue(c) == (CHOOSE i \in 1..10 : DigitChars[i] = c) - 1

\* repr(int)
RECURSIVE ReprInt(_)
ReprInt(n) ==
    IF n < 10 THEN <<DigitChars[n + 1]>>
    ELSE Append(ReprInt(n \div 10), DigitChars[(n % 10) + 1])

\* repr(str) of a one-character string
ReprChar(c) == <<"'", c, "'">>

\* repr(dict)
RECURSIVE ReprItems(_)
ReprItems(d) ==
    IF d = <<>> THEN <<>>
    ELSE LET item == ReprChar(d[1][1]) \o <<":", " ">> \o ReprInt(d[1][2])
         IN IF Len(d) = 1 THEN item
            ELSE item \o <<",", " ">> \o ReprItems(Tail(d))

ReprDict(d) == <<"{">> \o ReprItems(d) \o <<"}">>

\* str.encode("utf-8") / bytes.decode("utf-8") on the characters of a repr
EncodeUtf8(string) == [i \in 1..Len(string) |-> Ord(string[i])]

DecodeUtf8(bytes) == [i \in 1..Len(bytes) |-> Chr(bytes[i])]

\* ----------------------------------------------------------------- eval
RECURSIVE EvalInt(_, _, _)
EvalInt(string, i, acc) ==
    IF i <= Len(string) /\ IsDigit(string[i])
    THEN EvalInt(string, i + 1, acc * 10 + DigitValue(string[i]))
    ELSE [value |-> acc, next |-> i]

RECURSIVE EvalItems(_, _, _)
EvalItems(string, i, d) ==
    IF string[i] = "}" THEN d
    ELSE IF string[i] = "," THEN EvalItems(string, i + 2, d)
    ELSE LET key == string[i + 1]
             int == EvalInt(string, i + 5, 0)
         IN EvalItems(string, int.next, DictSet(d, key, int.value))

EvalDict(string) == EvalItems(string, 2, <<>>)

\* ------------------------------------------------------------- bitarray
Bit(b) == IF b = 1 THEN "1" ELSE "0"

RECURSIVE Pow2(_)
Pow2(k) == IF k = 0 THEN 1 ELSE 2 * Pow2(k - 1)

\* big-endian bit order, the bitarray default
ByteToBits(byte) == [k \in 1..8 |-> Bit((byte \div Pow2(8 - k)) % 2)]

RECURSIVE BitsToInt(_)
BitsToInt(bits) ==
    IF bits = <<>> THEN 0
    ELSE 2 * BitsToInt(SubSeq(bits, 1, Len(bits) - 1))
         + (IF bits[Len(bits)] = "1" THEN 1 ELSE 0)

NullMarker == [k \in 1..8 |-> "0"]

\* bitarray.tofile: whole bytes, the last one padded with zero bits
PadToByte(bits) == bits \o [k \in 1..((8 - (Len(bits) % 8)) % 8) |-> "0"]

ToFile(bits) ==
    LET padded == PadToByte(bits)
    IN [i \in 1..(Len(padded) \div 8) |->
           BitsToInt(SubSeq(padded, 8 * i - 7, 8 * i))]

\* bitarray.fromfile
FromFile(bytes) ==
    [j \in 1..(8 * Len(bytes)) |-> ByteToBits(bytes[((j - 1) \div 8) + 1])[((j - 1) % 8) + 1]]

\* bitarray.tobytes on a whole number of bytes
ToBytes(bits) ==
    [i \in 1..(Len(bits) \div 8) |-> BitsToInt(SubSeq(bits, 8 * i - 7, 8 * i))]

\* ---------------------------------------------------------- save_to_file
SaveBytes(string, character_map) ==
    EncodeUtf8(ReprDict(character_map)) \o ToFile(NullMarker \o string)

\* ------------------------------------------- decompress_from_file header
\* the for loop over byte_count: index (0-based) of the first null byte,
\* or -1 when the loop ends without a break
MarkerIndex(allbits) ==
    LET byte_count == Len(allbits) \div 8
        hits == {i \in 0..(byte_count - 1) :
                    SubSeq(allbits, i * 8 + 1, i * 8 + 8) = NullMarker}
    IN IF hits = {} THEN -1
       ELSE CHOOSE i \in hits : \A j \in hits : i <= j

ReadHeader(bytes) ==
    LET allbits == FromFile(bytes)
        i == MarkerIndex(allbits)
    IN IF i = -1
       THEN [raised |-> "ValueError", freq_map |-> <<>>, bits |-> <<>>]
       ELSE [raised |-> "",
             freq_map |-> EvalDict(DecodeUtf8(ToBytes(SubSeq(allbits, 1, i * 8)))),
             bits |-> SubSeq(allbits, i * 8 + 9, Len(allbits))]

\* ------------------------------------------------------------------ state
VARIABLES
    pc,              \* position in the script
    phase,           \* which caller of construct_tree is running
    data,            \* the input string
    freq_map,        \* huffman_encode: the frequency map
    encoding,        \* huffman_encode: the schema
    encoded_string,  \* huffman_encode: the encoded string
    top_node,        \* huffman_encode: the tree
    char_map,        \* construct_tree: its argument
    ascending_keys,  \* construct_tree: the candidate list
    merges,          \* construct_tree: loop iterations run so far
    huff_exists,     \* the .huff file has been created
    huff_file,       \* the bytes of the .huff file
    read_bytes,      \* decompress_from_file: the bytes read from the file
    bits,            \* decompress_from_file: the bits after the header
    dec_top_node,    \* decompress_from_file: the tree
    dec_encoding,    \* decompress_from_file: the schema
    pattern,         \* decode_string_with_schema: pattern at loop exit
    out_exists,      \* the decompressed file has been written
    original_text,   \* the contents of the decompressed file
    raised           \* the exception that ended the run, "" if none

vars == <<pc, phase, data, freq_map, encoding, encoded_string, top_node,
          char_map, ascending_keys, merges, huff_exists, huff_file,
          read_bytes, bits, dec_top_node, dec_encoding, pattern,
          out_exists, original_text, raised>>

Init ==
    /\ data \in Inputs
    /\ pc = "huffman_encode"
    /\ phase = "compress"
    /\ freq_map = <<>>
    /\ encoding = <<>>
    /\ encoded_string = <<>>
    /\ top_node = NoChild
    /\ char_map = <<>>
    /\ ascending_keys = <<>>
    /\ merges = 0
    /\ huff_exists = FALSE
    /\ huff_file = <<>>
    /\ read_bytes = <<>>
    /\ bits = <<>>
    /\ dec_top_node = NoChild
    /\ dec_encoding = <<>>
    /\ pattern = <<>>
    /\ out_exists = FALSE
    /\ original_text = <<>>
    /\ raised = ""

\* huffman_encode up to the first statement of construct_tree
HuffmanEncodeBegin ==
    /\ pc = "huffman_encode"
    /\ freq_map' = generate_frequency_map(data)
    /\ char_map' = freq_map'
    /\ ascending_keys' = InitialKeys(char_map')
    /\ merges' = 0
    /\ pc' = "construct_tree"
    /\ UNCHANGED <<phase, data, encoding, encoded_string, top_node,
                   huff_exists, huff_file, read_bytes, bits, dec_top_node,
                   dec_encoding, pattern, out_exists, original_text, raised>>

\* one iteration of the while loop of construct_tree
ConstructTreeIteration ==
    /\ pc = "construct_tree"
    /\ Len(ascending_keys) > 1
    /\ ascending_keys' = MergeStep(ascending_keys)
    /\ merges' = merges + 1
    /\ UNCHANGED <<pc, phase, data, freq_map, encoding, encoded_string,
                   top_node, char_map, huff_exists, huff_file, read_bytes,
                   bits, dec_top_node, dec_encoding, pattern, out_exists,
                   original_text, raised>>

\* construct_tree returns to huffman_encode, which runs to its return
HuffmanEncodeFinish ==
    /\ pc = "construct_tree"
    /\ phase = "compress"
    /\ Len(ascending_keys) <= 1
    /\ LET ret == ConstructTreeReturn(ascending_keys) IN
       IF ret.raised # ""
       THEN /\ raised' = ret.raised
            /\ pc' = "done"
            /\ UNCHANGED <<top_node, encoding, encoded_string>>
       ELSE /\ top_node' = ret.node
            /\ encoding' = get_schema(top_node', <<>>)
            /\ encoded_string' = encode_string_with_schema(data, encoding')
            /\ pc' = "save_to_file"
            /\ UNCHANGED raised
    /\ UNCHANGED <<phase, data, freq_map, char_map, ascending_keys, merges,
                   huff_exists, huff_file, read_bytes, bits, dec_top_node,
                   dec_encoding, pattern, out_exists, original_text>>

SaveToFile ==
    /\ pc = "save_to_file"
    /\ huff_exists' = TRUE
    /\ huff_file' = SaveBytes(encoded_string, freq_map)
    /\ pc' = "decompress_from_file"
    /\ UNCHANGED <<phase, data, freq_map, encoding, encoded_string, top_node,
                   char_map, ascending_keys, merges, read_bytes, bits,
                   dec_top_node, dec_encoding, pattern, out_exists,
                   original_text, raised>>

\* decompress_from_file up to the first statement of construct_tree; the
\* file it is given holds the first cut bytes of the saved file
DecompressBegin ==
    /\ pc = "decompress_from_file"
    /\ \E cut \in 0..Len(huff_file) :
          /\ read_bytes' = SubSeq(huff_file, 1, cut)
          /\ LET hdr == ReadHeader(read_bytes') IN
             IF hdr.raised # ""
             THEN /\ raised' = hdr.raised
                  /\ pc' = "done"
                  /\ UNCHANGED <<phase, char_map, ascending_keys, merges, bits>>
             ELSE /\ bits' = hdr.bits
                  /\ char_map' = hdr.freq_map
                  /\ ascending_keys' = InitialKeys(char_map')
                  /\ merges' = 0
                  /\ phase' = "decompress"
                  /\ pc' = "construct_tree"
                  /\ UNCHANGED raised
    /\ UNCHANGED <<data, freq_map, encoding, encoded_string, top_node,
                   huff_exists, huff_file, dec_top_node, dec_encoding,
                   pattern, out_exists, original_text>>

\* construct_tree returns to decompress_from_file, which runs to its end
DecompressFinish ==
    /\ pc = "construct_tree"
    /\ phase = "decompress"
    /\ Len(ascending_keys) <= 1
    /\ LET ret == ConstructTreeReturn(ascending_keys) IN
       IF ret.raised # ""
       THEN /\ raised' = ret.raised
            /\ UNCHANGED <<dec_top_node, dec_encoding, pattern, out_exists,
                           original_text>>
       ELSE /\ dec_top_node' = ret.node
            /\ dec_encoding' = get_schema(dec_top_node', <<>>)
            /\ pattern' = DecodeLocals(bits, dec_encoding').pattern
            /\ original_text' = decode_string_with_schema(bits, dec_encoding')
            /\ out_exists' = TRUE
            /\ UNCHANGED raised
    /\ pc' = "done"
    /\ UNCHANGED <<phase, data, freq_map, encoding, encoded_string, top_node,
                   char_map, ascending_keys, merges, huff_exists, huff_file,
                   read_bytes, bits>>

Next ==
    \/ HuffmanEncodeBegin
    \/ ConstructTreeIteration
    \/ HuffmanEncodeFinish
    \/ SaveToFile
    \/ DecompressBegin
    \/ DecompressFinish

Spec == Init /\ [][Next]_vars

\* ===================================================== properties
\* the run has ended after decompress_from_file read the whole saved file
FullRunDone == pc = "done" /\ huff_exists /\ read_bytes = huff_file

\* the run has ended after decompress_from_file read a strict prefix
TruncatedRunDone == pc = "done" /\ huff_exists /\ Len(read_bytes) < Len(huff_file)

IsPrefix(p, q) == Len(p) <= Len(q) /\ SubSeq(q, 1, Len(p)) = p

PrefixFree(enc) ==
    \A i, j \in 1..Len(enc) : i # j => ~IsPrefix(enc[i][2], enc[j][2])

RECURSIVE SumValues(_)
SumValues(list) ==
    IF list = <<>> THEN 0 ELSE Head(list).value + SumValues(Tail(list))

RECURSIVE SumCounts(_)
SumCounts(d) == IF d = <<>> THEN 0 ELSE Head(d)[2] + SumCounts(Tail(d))

\* ---- C1
\* C1: for every non-empty input, a run that encodes it, saves it and
\* decompresses the whole saved file ends without an exception and with
\* the decompressed file equal to the input.
C1_RoundTrip ==
    (FullRunDone /\ data # <<>>)
        => (raised = "" /\ out_exists /\ original_text = data)

\* ---- C2
\* reference builder: a min-priority queue ordered by (weight, sequence
\* number); leaves are numbered in table order, each merged node gets the
\* next number
PQInit(table) ==
    [i \in 1..Len(table) |->
        [node |-> Node(table[i][2], table[i][1], NoChild, NoChild), seq |-> i]]

PQBefore(e, f) ==
    \/ e.node.value < f.node.value
    \/ e.node.value = f.node.value /\ e.seq <= f.seq

PQMinIndex(queue) ==
    CHOOSE i \in 1..Len(queue) : \A j \in 1..Len(queue) : PQBefore(queue[i], queue[j])

PQRemove(queue, i) == SubSeq(queue, 1, i - 1) \o SubSeq(queue, i + 1, Len(queue))

RECURSIVE PQLoop(_, _)
PQLoop(queue, next) ==
    IF Len(queue) <= 1 THEN queue
    ELSE LET i == PQMinIndex(queue)
             first == queue[i]
             rest == PQRemove(queue, i)
             j == PQMinIndex(rest)
             second == rest[j]
             merged == [node |-> Node(first.node.value + second.node.value,
                                      None, first.node, second.node),
                        seq |-> next]
         IN PQLoop(Append(PQRemove(rest, j), merged), next + 1)

PQTree(table) == PQLoop(PQInit(table), Len(table) + 1)[1].node

HasTie(table) ==
    \E i, j \in 1..Len(table) : i # j /\ table[i][2] = table[j][2]

\* C2: whenever construct_tree returns a tree for a non-empty table, it is
\* the tree the (weight, sequence number) priority queue builds; and the
\* tree rebuilt by decompress_from_file from the whole saved file is the
\* tree huffman_encode used.
C2_TieBreakIsCreationOrder ==
    /\ (pc = "construct_tree" /\ Len(ascending_keys) = 1)
           => ConstructTreeReturn(ascending_keys).node = PQTree(char_map)
    /\ (FullRunDone /\ raised = "") => dec_top_node = top_node

C2_Witness ==
    /\ FullRunDone
    /\ freq_map = << <<"a", 2>>, <<"b", 1>>, <<"c", 1>> >>
    /\ HasTie(char_map)
    /\ dec_top_node = top_node
    /\ top_node = PQTree(freq_map)
    /\ top_node.left.char = "a"

\* ---- C3
\* C3: in every code table get_schema returns for a tree of construct_tree
\* (in huffman_encode and in decompress_from_file), no symbol's code is a
\* prefix of, or equal to, another symbol's code.
C3_PrefixFree ==
    /\ top_node # NoChild => PrefixFree(encoding)
    /\ dec_top_node # NoChild => PrefixFree(dec_encoding)

C3_Witness ==
    /\ pc = "save_to_file"
    /\ Len(encoding) >= 3
    /\ \E i, j \in 1..Len(encoding) : Len(encoding[i][2]) < Len(encoding[j][2])
    /\ PrefixFree(encoding)

\* ---- C4
\* C4: for an input of one repeated symbol the tree is an internal root
\* over the single leaf, the symbol's code is non-empty, and the whole
\* saved file decompresses back to the input.
C4_SingleSymbol ==
    (Len(freq_map) = 1 /\ top_node # NoChild)
        => /\ top_node.char = None
           /\ \A i \in 1..Len(encoding) : encoding[i][2] # <<>>
           /\ FullRunDone => original_text = data

\* ---- C5
\* C5: the bits decompress_from_file decodes are exactly the bits that
\* were encoded (no padding bit among them), and for an input of two or
\* more distinct symbols it emits as many symbols as were encoded.
C5_PaddingNotDecoded ==
    (FullRunDone /\ out_exists)
        => /\ bits = encoded_string
           /\ Len(freq_map) >= 2 => Len(original_text) = Len(data)

\* ---- C6
\* C6: for the empty input the run ends with the tree builder's exception
\* and no .huff file is ever created.
C6_EmptyInputRejected ==
    data = <<>>
        => /\ ~huff_exists
           /\ pc \in {"huffman_encode", "construct_tree", "done"}
           /\ pc = "done" => raised = "IndexError"

C6_Witness ==
    /\ data = <<>>
    /\ pc = "done"
    /\ raised = "IndexError"
    /\ ~huff_exists

\* ---- C7
\* C7: when the decoder's loop ends with a non-empty pending pattern (one
\* that is not a complete code), decompression ends with a decode error
\* and writes no output.
C7_IncompleteTrailingCode ==
    (pc = "done" /\ phase = "decompress" /\ pattern # <<>>)
        => (raised = "DecodeError" /\ ~out_exists)

\* ---- C8
\* C8: decompressing any strict prefix of a saved file ends with the
\* corrupt-header exception and writes no output.
C8_TruncationRejected ==
    TruncatedRunDone => (raised = "ValueError" /\ ~out_exists)

\* ---- C9
RECURSIVE SumOver(_, _)
SumOver(f, n) == IF n = 0 THEN 0 ELSE f[n] + SumOver(f, n - 1)

\* code-length assignments for n symbols that satisfy the Kraft inequality
KraftLengths(n) ==
    {l \in [1..n -> 1..MaxCodeLen] :
        SumOver([i \in 1..n |-> Pow2(MaxCodeLen - l[i])], n) <= Pow2(MaxCodeLen)}

EncodedLength(table, enc) ==
    SumOver([i \in 1..Len(table) |->
                table[i][2] * Len(DictGet(enc, table[i][1]))], Len(table))

\* C9: for a table of two or more symbols, the encoded length under the
\* code table of construct_tree is no more than under any assignment of
\* code lengths that satisfies the Kraft inequality.
C9_Optimal ==
    (pc = "save_to_file" /\ Len(freq_map) >= 2)
        => \A l \in KraftLengths(Len(freq_map)) :
              EncodedLength(freq_map, encoding)
                  <= SumOver([i \in 1..Len(freq_map) |-> freq_map[i][2] * l[i]],
                             Len(freq_map))

C9_Witness ==
    /\ pc = "save_to_file"
    /\ freq_map = << <<"a", 3>>, <<"b", 1>>, <<"c", 1>> >>
    /\ EncodedLength(freq_map, encoding) = 7
    /\ Len(encoded_string) = 7

\* ---- C10
RECURSIVE WellFormed(_)
WellFormed(n) ==
    IF n.char # None
    THEN n.left = NoChild /\ n.right = NoChild
    ELSE /\ n.left # NoChild
         /\ n.right # NoChild
         /\ n.value = n.left.value + n.right.value
         /\ WellFormed(n.left)
         /\ WellFormed(n.right)

\* the leaves of a tree, left to right, as <<char, weight>>
RECURSIVE Leaves(_)
Leaves(n) ==
    IF n.left = NoChild /\ n.right = NoChild THEN << <<n.char, n.value>> >>
    ELSE (IF n.left = NoChild THEN <<>> ELSE Leaves(n.left))
         \o (IF n.right = NoChild THEN <<>> ELSE Leaves(n.right))

RECURSIVE ForestLeaves(_)
ForestLeaves(list) ==
    IF list = <<>> THEN <<>> ELSE Leaves(Head(list)) \o ForestLeaves(Tail(list))

\* the same pairs, each the same number of times
SameItems(s, t) ==
    /\ Len(s) = Len(t)
    /\ \A i \in 1..Len(s) :
          Cardinality({j \in 1..Len(s) : s[j] = s[i]})
              = Cardinality({j \in 1..Len(t) : t[j] = s[i]})

\* C10: while construct_tree runs, the candidate list is a forest of
\* well-formed trees whose leaves are the table's symbols, each once, with
\* its count; the candidates' weights sum to the total of the counts; after
\* k iterations n - k candidates are left, so the loop ends after n - 1
\* iterations with one root whose weight is the input length.
C10_MergeLoopInvariant ==
    (pc = "construct_tree" /\ Len(char_map) >= 1)
        => /\ \A i \in 1..Len(ascending_keys) : WellFormed(ascending_keys[i])
           /\ SameItems(ForestLeaves(ascending_keys), char_map)
           /\ SumValues(ascending_keys) = SumCounts(char_map)
           /\ Len(ascending_keys) + merges = Len(char_map)
           /\ Len(ascending_keys) >= 1
           /\ Len(ascending_keys) = 1
                  => /\ merges = Len(char_map) - 1
                     /\ ascending_keys[1].value = Len(data)

C10_Witness ==
    /\ pc = "construct_tree"
    /\ Len(char_map) = 3
    /\ merges = 2
    /\ Len(ascending_keys) = 1
    /\ ascending_keys[1].value = Len(data)
    /\ ascending_keys[1].char = None

====
